---- MODULE Spec2Model ----
(***************************************************************************)
(* liquid_audio_chat_rs: the incremental stream decoder (api.rs,           *)
(* process_stream, driven by run_request in main.rs) and the real-time     *)
(* playback engine (audio.rs, AudioPlayer / PlaybackHandle), the request  *)
(* builder (api.rs, stream_single_shot / stream_chat) and the recorder     *)
(* (audio.rs, AudioRecorder).                                              *)
(*                                                                         *)
(* The response body is a sequence of byte runs.  Every ASCII run the      *)
(* decoder never looks inside (a JSON key, a bracket, the two halves of    *)
(* the "data: " field marker) is one symbol; the two bytes of the UTF-8    *)
(* character U+00E9 are two symbols, so that a network chunk can end       *)
(* between them.  Option<T> is a sequence of length at most one.           *)
(***************************************************************************)
EXTENDS Integers, Sequences, FiniteSets, TLC

\* ------------------------------------------------------------- bounds
\* lines the server sends in one response
MaxLines == 3
\* largest network chunk, in symbols
MaxChunk == 6
\* largest value of the monotonic clock (t0.elapsed())
MaxClock == 1

\* ------------------------------------------------------------ Option<T>
None == <<>>
Some(x) == <<x>>

Min(a, b) == IF a < b THEN a ELSE b

\* --------------------------------------------------- symbols of the wire
NL == "\n"
CR == "\r"
SP == " "
\* "data: " as two runs, so that a chunk can end inside the field marker
DA == "da"
TA == "ta: "
DONE == "[DONE]"
JNONE == "{}"
JEMPTY == "{choices:[]}"
JBAD == "{not json"
\* `{"choices":[{}]}`: a first choice with neither delta nor finish_reason
JNODELTA == "{choices:[{}]}"
\* `{"choices":[{"delta":{` ... and the three ways the record goes on after
\* the delta's fields: `}}]}`, `},"finish_reason":"stop"}]}`,
\* `},"finish_reason":"length"}]}`
ROPEN == "{choices:[{delta:{"
RCLOSE == "}}]}"
RSTOP == "},finish_reason:stop}]}"
RLEN == "},finish_reason:length}]}"
COPEN == "content:'"
QUOTE == "'"
AOPEN == "audio_chunk:{data:'"
ACLOSE == "'}"
\* U+00E9 in UTF-8: lead byte 0xC3, continuation byte 0xA9
U1 == "C3"
U2 == "A9"
\* the marker process_stream passes to on_text before on_audio
NOTE == "note"

\* the bytes a text delta is made of: an ASCII run, or the two bytes of U+00E9
TextBytes == {"Hi", U1, U2}

\* base64 texts, each with the bytes the STANDARD engine decodes it to;
\* "!!!!" is not base64 and decode() fails on it
B64Texts == {"AACAPw==", "AACAPwAA", "AACAPwAAAEA=", "AAAA", "!!!!"}

B64Decode(t) ==
    IF t = "AACAPw==" THEN [ok |-> TRUE, val |-> <<0, 0, 128, 63>>]
    ELSE IF t = "AACAPwAA" THEN [ok |-> TRUE, val |-> <<0, 0, 128, 63, 0, 0>>]
    ELSE IF t = "AACAPwAAAEA="
    THEN [ok |-> TRUE, val |-> <<0, 0, 128, 63, 0, 0, 0, 64>>]
    ELSE IF t = "AAAA" THEN [ok |-> TRUE, val |-> <<0, 0, 0>>]
    ELSE [ok |-> FALSE, val |-> <<>>]

\* chunks(4) for chunks_exact(4): a short last chunk makes a sample too, its
\* missing bytes read as zero
SamplesOfPadded(bytes) ==
    LET at(i) == IF i <= Len(bytes) THEN bytes[i] ELSE 0
    IN [k \in 1..((Len(bytes) + 3) \div 4) |->
           at(4 * k - 3) + 256 * at(4 * k - 2)
             + 65536 * at(4 * k - 1) + 16777216 * at(4 * k)]

\* decoded.chunks_exact(4).map(f32::from_le_bytes): the samples as their
\* 32-bit patterns, the trailing Len % 4 bytes dropped
SamplesOf(bytes) ==
    [k \in 1..(Len(bytes) \div 4) |->
        bytes[4 * k - 3] + 256 * bytes[4 * k - 2]
          + 65536 * bytes[4 * k - 1] + 16777216 * bytes[4 * k]]

\* ------------------------------------------------------ string helpers
\* str::find: the first index of x, 0 when x does not occur
Find(s, x) ==
    IF \E i \in 1..Len(s) : s[i] = x
    THEN CHOOSE i \in 1..Len(s) : s[i] = x /\ \A j \in 1..(i - 1) : s[j] # x
    ELSE 0

IsSpace(c) == c \in {SP, CR, NL}

\* str::trim: leading and trailing whitespace removed
Trim(s) ==
    IF \A i \in 1..Len(s) : IsSpace(s[i]) THEN <<>>
    ELSE LET a == CHOOSE i \in 1..Len(s) :
                     ~IsSpace(s[i]) /\ \A j \in 1..(i - 1) : IsSpace(s[j])
             b == CHOOSE i \in 1..Len(s) :
                     ~IsSpace(s[i]) /\ \A j \in (i + 1)..Len(s) : IsSpace(s[j])
         IN SubSeq(s, a, b)

\* line.strip_prefix("data: ").unwrap_or("")
StripPrefix(line) ==
    IF Len(line) >= 2 /\ line[1] = DA /\ line[2] = TA
    THEN SubSeq(line, 3, Len(line))
    ELSE <<>>

\* std::str::from_utf8(&chunk).is_ok(): every lead byte is followed by its
\* continuation byte inside the chunk, and no continuation byte stands alone
FromUtf8Ok(chunk) ==
    \A i \in 1..Len(chunk) :
        /\ chunk[i] = U1 => (i < Len(chunk) /\ chunk[i + 1] = U2)
        /\ chunk[i] = U2 => (i > 1 /\ chunk[i - 1] = U1)

\* ------------------------------------------------ serde_json::from_str
Ok(v) == [ok |-> TRUE, val |-> v]
Err == [ok |-> FALSE, val |-> <<>>]

\* StreamDelta { content: Option<String>, audio_chunk: Option<AudioChunk> }
ParseDelta(b) ==
    LET hasC == b # <<>> /\ b[1] = COPEN
        cEnd == Find(b, QUOTE)
        text == IF hasC /\ cEnd > 0 THEN SubSeq(b, 2, cEnd - 1) ELSE <<>>
        rest == IF hasC THEN SubSeq(b, cEnd + 1, Len(b)) ELSE b
        audioOk == \/ rest = <<>>
                   \/ /\ Len(rest) = 3
                      /\ rest[1] = AOPEN
                      /\ rest[2] \in B64Texts
                      /\ rest[3] = ACLOSE
    IN IF (hasC /\ cEnd = 0)
          \/ (\E i \in 1..Len(text) : text[i] \notin TextBytes)
          \/ ~audioOk
       THEN Err
       ELSE Ok([content |-> IF hasC THEN Some(text) ELSE None,
                audio_chunk |-> IF rest = <<>> THEN None
                                ELSE Some([data |-> rest[2]])])

\* StreamChunk { choices: Option<Vec<StreamChoice>> },
\* StreamChoice { delta: Option<StreamDelta>, finish_reason: Option<String> }
ParseChunk(data) ==
    IF data = <<JNONE>> THEN Ok([choices |-> None])
    ELSE IF data = <<JEMPTY>> THEN Ok([choices |-> Some(<<>>)])
    ELSE IF data = <<JNODELTA>>
    THEN Ok([choices |-> Some(<<[delta |-> None, finish_reason |-> None]>>)])
    ELSE IF Len(data) >= 2 /\ data[1] = ROPEN
            /\ data[Len(data)] \in {RCLOSE, RSTOP, RLEN}
    THEN LET d == ParseDelta(SubSeq(data, 2, Len(data) - 1))
             fin == data[Len(data)]
         IN IF d.ok
            THEN Ok([choices |-> Some(<<
                     [delta |-> Some(d.val),
                      finish_reason |-> IF fin = RSTOP THEN Some("stop")
                                        ELSE IF fin = RLEN THEN Some("length")
                                        ELSE None]>>)])
            ELSE Err
    ELSE Err

\* ------------------------------------------------- the response body
\* one line of the body, without its newline
Prefixed(data) == <<DA, TA>> \o data
Record(fields, close) == <<ROPEN>> \o fields \o <<close>>
Content(text) == <<COPEN>> \o text \o <<QUOTE>>
Audio(b64) == <<AOPEN, b64, ACLOSE>>

LineKinds ==
    { Prefixed(Record(Content(<<"Hi">>), RLEN)) \o <<CR>>,
      Prefixed(Record(Audio("AACAPw=="), RCLOSE)),
      Prefixed(Record(<<>>, RSTOP)),
      Prefixed(Record(<<>>, RCLOSE)),
      Prefixed(<<DONE>>),
      Prefixed(<<JBAD>>),
      Prefixed(<<JEMPTY>>),
      Prefixed(<<JNONE>>),
      <<>> }

\* what may follow the last newline: a record the server never terminated
Tails == { Prefixed(Record(<<>>, RSTOP)) }

\* lines of a response whose text holds a character of more than one byte
WideKinds ==
    { Prefixed(Record(Content(<<U1, U2>>), RCLOSE)),
      Prefixed(Record(Content(<<"Hi">>), RLEN)) \o <<CR>>,
      Prefixed(Record(<<>>, RSTOP)) }

\* lines of a response that carries audio: payloads of 6, 8, 3 bytes and one
\* that is not base64, a delta with text and audio, a delta with empty text
AudioKinds ==
    { Prefixed(Record(Audio("AACAPwAA"), RCLOSE)),
      Prefixed(Record(Audio("AACAPwAAAEA="), RCLOSE)),
      Prefixed(Record(Audio("AAAA"), RCLOSE)),
      Prefixed(Record(Audio("!!!!"), RCLOSE)),
      Prefixed(Record(Content(<<"Hi">>) \o Audio("AACAPw=="), RCLOSE)),
      Prefixed(Record(Content(<<>>), RCLOSE)),
      Prefixed(Record(Content(<<"Hi">>), RCLOSE)),
      Prefixed(Record(<<>>, RSTOP)) }

\* lines of a response in plain NDJSON, and the same with the field marker
PlainKinds ==
    { Record(Content(<<"Hi">>), RCLOSE),
      Prefixed(Record(Content(<<"Hi">>), RCLOSE)),
      Record(Audio("AACAPw=="), RCLOSE),
      Prefixed(Record(Audio("AACAPw=="), RCLOSE)),
      Record(<<>>, RSTOP),
      <<DONE>> }

\* the bodies of at most n lines of the given kinds, each line ended by NL
RECURSIVE Bodies(_, _)
Bodies(kinds, n) ==
    IF n = 0 THEN {<<>>}
    ELSE LET shorter == Bodies(kinds, n - 1)
         IN shorter \cup { b \o l \o <<NL>> : b \in shorter, l \in kinds }

Streams ==
    Bodies(LineKinds, MaxLines)
        \cup { b \o t : b \in Bodies(LineKinds, MaxLines - 1), t \in Tails }

WideStreams == Bodies(WideKinds, MaxLines)

AudioStreams == Bodies(AudioKinds, MaxLines)

PlainStreams == Bodies(PlainKinds, MaxLines)

\* ---------------------------------------------------------------- state
VARIABLES
    \* the decoder (api.rs process_stream, called by main.rs run_request)
    body,       \* every byte the server sends on this response
    pos,        \* bytes already handed over by stream.next()
    clock,      \* t0.elapsed()
    pc,         \* "await" | "lines" | "finish" | "done" | "failed"
    dec,        \* the locals of process_stream, and the calls it has made
    result,     \* what process_stream returned
    warned,     \* run_request printed the disconnect warning
    \* the player (audio.rs AudioPlayer, PlaybackHandle; stopped by main.rs)
    queue,      \* the bounded channel: chunks sent and not yet received
    leftover,   \* Option<(Vec<f32>, usize)> kept by the output callback
    running,    \* AudioPlayer.running
    alive,      \* _stream_guard holds the cpal stream: the device is driven
    cb,         \* the output callback in progress: its buffer and position
    out,        \* the hardware buffer as the last invocation left it
    req,        \* "running" while run_request feeds the handle, then "ended"
    budget,     \* add_samples calls still to come
    nAdd,       \* add_samples calls made so far
    nCb,        \* output callback invocations so far
    accepted,   \* history: the samples try_send took, in order
    dropped,    \* history: the chunks try_send refused
    played,     \* history: the samples the callback copied out, in order
    \* the request builder (api.rs stream_single_shot, stream_chat, post_stream)
    posted,     \* the request bodies post_stream sent, as serialised
    call,       \* the arguments of the last call of the builder
    outcome,    \* what that call returned: "ok" or the error
    \* the recorder (audio.rs AudioRecorder, run by main.rs on /record)
    device,     \* the host has a default input device
    rec,        \* the AudioRecorder, once constructed
    rpc,        \* where the thread that runs record_blocking stands
    stop_flag,  \* the AtomicBool the stop closure loads
    stream,     \* the input stream: "none" | "open" | "closed"
    mutex,      \* who holds the lock of the capture buffer
    rsamples,   \* the capture buffer (samples in record_blocking)
    pending,    \* the slice the input callback in progress was given
    delivered,  \* history: every sample the device gave the callback
    rresult,    \* what record_blocking returned
    nIn,        \* input callback invocations so far
    nDev,       \* times the device was plugged in or out so far
    \* the session (main.rs, the command loop and run_request)
    cur_mode,           \* mode: "asr" | "tts" | "interleaved"
    is_first_message,   \* the first-turn flag
    session_new,        \* history: a session began and no chat request since
    outcomes            \* history: how each request of the session ended

decVars == <<body, pos, clock, pc, dec, result, warned>>

playVars == <<queue, leftover, running, alive, cb, out, req, budget, nAdd, nCb,
              accepted, dropped, played>>

bldVars == <<posted, call, outcome>>

recVars == <<device, rec, rpc, stop_flag, stream, mutex, rsamples, pending,
             delivered, rresult, nIn, nDev>>

sesVars == <<cur_mode, is_first_message, session_new, outcomes>>

vars == <<decVars, playVars, bldVars, recVars, sesVars>>

\* ------------------------------------------------------- process_stream
OnText(text) == [fn |-> "on_text", text |-> text, samples |-> <<>>]
OnAudio(samples) == [fn |-> "on_audio", text |-> <<>>, samples |-> samples]

\* the locals at entry (api.rs 167-173); calls and lines are the history of
\* the callbacks invoked and of the lines taken out of the buffer
DecInit ==
    [ ttft |-> None,
      text_chunks |-> <<>>,
      audio_chunks |-> <<>>,
      total_samples |-> 0,
      completed |-> FALSE,
      buffer |-> <<>>,
      calls |-> <<>>,
      lines |-> <<>> ]

\* if let Ok(s) = from_utf8(&chunk) { buffer.push_str(s) }
PushChunk(d, chunk) ==
    IF FromUtf8Ok(chunk) THEN [d EXCEPT !.buffer = @ \o chunk] ELSE d

\* the body with the marker pushed to text_chunks like a text delta
AcceptDeltaMarkerCounted(d, delta, now) ==
    LET d1 == [d EXCEPT !.ttft = IF @ = None THEN Some(now) ELSE @]
        d2 == IF delta.content # None /\ delta.content[1] # <<>>
              THEN [d1 EXCEPT !.text_chunks = Append(@, <<now, delta.content[1]>>),
                              !.calls = Append(@, OnText(delta.content[1]))]
              ELSE d1
        decoded == IF delta.audio_chunk # None
                   THEN B64Decode(delta.audio_chunk[1].data).val
                   ELSE <<>>
        samples == SamplesOf(decoded)
        n == Len(samples)
    IN IF delta.audio_chunk # None /\ n > 0
       THEN [d2 EXCEPT !.total_samples = @ + n,
                       !.audio_chunks = Append(@, <<now, n>>),
                       !.text_chunks = Append(@, <<now, <<NOTE>>>>),
                       !.calls = @ \o <<OnText(<<NOTE>>), OnAudio(samples)>>]
       ELSE d2

\* the body of the inner loop from "let now" on: a record with a delta
AcceptDelta(d, delta, now) ==
    LET d1 == [d EXCEPT !.ttft = IF @ = None THEN Some(now) ELSE @]
        d2 == IF delta.content # None /\ delta.content[1] # <<>>
              THEN [d1 EXCEPT !.text_chunks = Append(@, <<now, delta.content[1]>>),
                              !.calls = Append(@, OnText(delta.content[1]))]
              ELSE d1
        decoded == IF delta.audio_chunk # None
                   THEN B64Decode(delta.audio_chunk[1].data).val
                   ELSE <<>>
        samples == SamplesOf(decoded)
        n == Len(samples)
    IN IF delta.audio_chunk # None /\ n > 0
       THEN [d2 EXCEPT !.total_samples = @ + n,
                       !.audio_chunks = Append(@, <<now, n>>),
                       !.calls = @ \o <<OnText(<<NOTE>>), OnAudio(samples)>>]
       ELSE d2

\* the iteration with completed set by any finish_reason
StepLineAnyFinish(d, now) ==
    LET line_end == Find(d.buffer, NL)
        line == Trim(SubSeq(d.buffer, 1, line_end - 1))
        d1 == [d EXCEPT !.buffer = SubSeq(@, line_end + 1, Len(@)),
                        !.lines = Append(@, line)]
        data == StripPrefix(line)
        parsed == ParseChunk(data)
    IN IF data = <<DONE>> \/ data = <<>> THEN d1
       ELSE IF ~parsed.ok THEN d1
       ELSE IF parsed.val.choices = None \/ parsed.val.choices[1] = <<>> THEN d1
       ELSE LET choice == parsed.val.choices[1][1]
            IN IF choice.finish_reason # None
               THEN [d1 EXCEPT !.completed = TRUE]
               ELSE IF choice.delta = None THEN d1
               ELSE AcceptDelta(d1, choice.delta[1], now)

\* the iteration with the clock read, and ttft set, as soon as the line parses
StepLineEarlyTtft(d, now) ==
    LET line_end == Find(d.buffer, NL)
        line == Trim(SubSeq(d.buffer, 1, line_end - 1))
        d1 == [d EXCEPT !.buffer = SubSeq(@, line_end + 1, Len(@)),
                        !.lines = Append(@, line)]
        data == StripPrefix(line)
        parsed == ParseChunk(data)
        d2 == [d1 EXCEPT !.ttft = IF @ = None THEN Some(now) ELSE @]
    IN IF data = <<DONE>> \/ data = <<>> THEN d1
       ELSE IF ~parsed.ok THEN d1
       ELSE IF parsed.val.choices = None \/ parsed.val.choices[1] = <<>> THEN d2
       ELSE LET choice == parsed.val.choices[1][1]
            IN IF choice.finish_reason = Some("stop")
               THEN [d1 EXCEPT !.completed = TRUE]
               ELSE IF choice.delta = None THEN d1
               ELSE AcceptDelta(d1, choice.delta[1], now)

\* one iteration of "while let Some(line_end) = buffer.find('\n')"
StepLine(d, now) ==
    LET line_end == Find(d.buffer, NL)
        line == Trim(SubSeq(d.buffer, 1, line_end - 1))
        d1 == [d EXCEPT !.buffer = SubSeq(@, line_end + 1, Len(@)),
                        !.lines = Append(@, line)]
        data == StripPrefix(line)
        parsed == ParseChunk(data)
    IN IF data = <<DONE>> \/ data = <<>> THEN d1
       ELSE IF ~parsed.ok THEN d1
       ELSE IF parsed.val.choices = None \/ parsed.val.choices[1] = <<>> THEN d1
       ELSE LET choice == parsed.val.choices[1][1]
            IN IF choice.finish_reason = Some("stop")
               THEN [d1 EXCEPT !.completed = TRUE]
               ELSE IF choice.delta = None THEN d1
               ELSE AcceptDelta(d1, choice.delta[1], now)

\* the inner loop without its "break": the buffered lines are taken first
AfterLinesNoBreak(d) ==
    IF Find(d.buffer, NL) > 0 THEN "lines"
    ELSE IF d.completed THEN "finish"
    ELSE "await"

\* where the task stands after taking a chunk or a line: still in the inner
\* loop, left through "break" (completed), or back at stream.next().await
AfterLines(d) ==
    IF d.completed THEN "finish"
    ELSE IF Find(d.buffer, NL) > 0 THEN "lines"
    ELSE "await"

\* the inner loop run until it is left
RECURSIVE DrainLines(_, _)
DrainLines(d, now) ==
    IF AfterLines(d) = "lines" THEN DrainLines(StepLine(d, now), now) ELSE d

\* the locals when the read loop is left after the whole of b has come as one
\* network chunk
OneChunk(b) == DrainLines(PushChunk(DecInit, b), 0)

\* text_chunks.iter().map(|(_, t)| t.as_str()).collect::<String>()
RECURSIVE FullText(_)
FullText(chunks) ==
    IF chunks = <<>> THEN <<>>
    ELSE FullText(SubSeq(chunks, 1, Len(chunks) - 1)) \o chunks[Len(chunks)][2]

\* api.rs 235-259: the value returned once the read loop is left
Returned(d, now) ==
    [ ok |-> TRUE,
      full_text |-> Some(FullText(d.text_chunks)),
      stats |-> Some([ ttft_secs |-> d.ttft,
                       total_secs |-> now,
                       text_chunk_count |-> Len(d.text_chunks),
                       text_duration_secs |->
                           IF Len(d.text_chunks) > 1
                           THEN d.text_chunks[Len(d.text_chunks)][1] - d.text_chunks[1][1]
                           ELSE 0,
                       total_audio_samples |-> d.total_samples,
                       audio_duration_secs |->
                           IF d.audio_chunks = <<>> THEN 0
                           ELSE d.audio_chunks[Len(d.audio_chunks)][1] - d.audio_chunks[1][1],
                       completed |-> d.completed ]) ]

\* chunk.map_err(|e| e.to_string())?
Failed == [ok |-> FALSE, full_text |-> None, stats |-> None]

DecodeFrom(bodies) ==
    /\ body \in bodies
    /\ pos = 0
    /\ clock = 0
    /\ pc = "await"
    /\ dec = DecInit
    /\ result = None
    /\ warned = FALSE

\* time passes while the task runs
Tick ==
    /\ pc \in {"await", "lines", "finish"}
    /\ clock < MaxClock
    /\ clock' = clock + 1
    /\ UNCHANGED <<body, pos, pc, dec, result, warned>>
    /\ UNCHANGED <<playVars, bldVars, recVars, sesVars>>

\* stream.next().await yields Some(Ok(chunk)): the next k bytes of the body
ReadChunk(k) ==
    /\ pc = "await"
    /\ pos + k <= Len(body)
    /\ LET d == PushChunk(dec, SubSeq(body, pos + 1, pos + k))
       IN /\ dec' = d
          /\ pc' = AfterLines(d)
    /\ pos' = pos + k
    /\ UNCHANGED <<body, clock, result, warned>>
    /\ UNCHANGED <<playVars, bldVars, recVars, sesVars>>

\* one line is taken out of the buffer and handled
ProcessLine ==
    /\ pc = "lines"
    /\ LET d == StepLine(dec, clock)
       IN /\ dec' = d
          /\ pc' = AfterLines(d)
    /\ UNCHANGED <<body, pos, clock, result, warned>>
    /\ UNCHANGED <<playVars, bldVars, recVars, sesVars>>

\* the end of the body taken as the end of the last line
StreamEndFlush ==
    /\ pc = "await"
    /\ pos = Len(body)
    /\ pc' = "finish"
    /\ dec' = IF dec.buffer # <<>>
              THEN StepLine([dec EXCEPT !.buffer = @ \o <<NL>>], clock)
              ELSE dec
    /\ UNCHANGED <<body, pos, clock, result, warned>>
    /\ UNCHANGED <<playVars, bldVars, recVars, sesVars>>

\* stream.next().await yields None: the body has ended
StreamEnd ==
    /\ pc = "await"
    /\ pos = Len(body)
    /\ pc' = "finish"
    /\ UNCHANGED <<body, pos, clock, dec, result, warned>>
    /\ UNCHANGED <<playVars, bldVars, recVars, sesVars>>

\* the error answered with what was gathered so far
ReadErrorPartial ==
    /\ pc = "await"
    /\ pc' = "failed"
    /\ result' = Some(Returned(dec, clock))
    /\ UNCHANGED <<body, pos, clock, dec, warned>>
    /\ UNCHANGED <<playVars, bldVars, recVars, sesVars>>

\* stream.next().await yields Some(Err(e)): the ? operator returns the error
ReadError ==
    /\ pc = "await"
    /\ pc' = "failed"
    /\ result' = Some(Failed)
    /\ UNCHANGED <<body, pos, clock, dec, warned>>
    /\ UNCHANGED <<playVars, bldVars, recVars, sesVars>>

\* process_stream returns Ok((full_text, stats)); run_request prints the
\* warning when the stream did not complete and hands the stats on
Return ==
    /\ pc = "finish"
    /\ pc' = "done"
    /\ result' = Some(Returned(dec, clock))
    /\ warned' = ~dec.completed
    /\ UNCHANGED <<body, pos, clock, dec>>
    /\ UNCHANGED <<playVars, bldVars, recVars, sesVars>>

\* ------------------------------------------------- the request builder
\* requests posted in one run
MaxSent == 2

\* Args.max_tokens, by default
MaxTokens == 512

\* the modes a caller may name, the texts it may pass, the WAV bytes it may pass
Modes == {"asr", "tts", "interleaved", "translate"}
Texts == {"hello"}
Wavs == {<<82, 73, 70>>, <<0, 0, 128, 63>>}

\* the alphabet of base64::engine::general_purpose::STANDARD
B64Alphabet ==
    << "A", "B", "C", "D", "E", "F", "G", "H", "I", "J", "K", "L", "M",
       "N", "O", "P", "Q", "R", "S", "T", "U", "V", "W", "X", "Y", "Z",
       "a", "b", "c", "d", "e", "f", "g", "h", "i", "j", "k", "l", "m",
       "n", "o", "p", "q", "r", "s", "t", "u", "v", "w", "x", "y", "z",
       "0", "1", "2", "3", "4", "5", "6", "7", "8", "9", "+", "/" >>

B64Char(n) == B64Alphabet[n + 1]

\* B64.encode(wav_data): three bytes to four characters, "=" padding
RECURSIVE B64Encode(_)
B64Encode(bytes) ==
    IF bytes = <<>> THEN <<>>
    ELSE IF Len(bytes) = 1
    THEN << B64Char(bytes[1] \div 4), B64Char((bytes[1] % 4) * 16), "=", "=" >>
    ELSE IF Len(bytes) = 2
    THEN << B64Char(bytes[1] \div 4),
            B64Char((bytes[1] % 4) * 16 + bytes[2] \div 16),
            B64Char((bytes[2] % 16) * 4), "=" >>
    ELSE << B64Char(bytes[1] \div 4),
            B64Char((bytes[1] % 4) * 16 + bytes[2] \div 16),
            B64Char((bytes[2] % 16) * 4 + bytes[3] \div 64),
            B64Char(bytes[3] % 64) >>
         \o B64Encode(SubSeq(bytes, 4, Len(bytes)))

\* ChatMessage { role, content: Some(text), content_array: None }
TextMessage(role, text) ==
    [role |-> role, content |-> Some(text), content_array |-> None]

\* create_audio_message(wav_data)
CreateAudioMessage(wav_data) ==
    LET encoded == B64Encode(wav_data)
        content_array ==
            << [type |-> "input_audio",
                input_audio |-> [data |-> encoded, format |-> "wav"]] >>
    IN [role |-> "user", content |-> None, content_array |-> Some(content_array)]

\* #[derive(Serialize)] on ChatMessage: one member per field, under the
\* field's own name, the None fields skipped; a member is <<key, value>> and a
\* value is a string s or a list a
JString(s) == [t |-> "string", s |-> s, a |-> <<>>]
JList(a) == [t |-> "list", s |-> "", a |-> a]

SerializeMessage(m) ==
    << <<"role", JString(m.role)>> >>
      \o (IF m.content # None
          THEN << <<"content", JString(m.content[1])>> >> ELSE <<>>)
      \o (IF m.content_array # None
          THEN << <<"content_array", JList(m.content_array[1])>> >> ELSE <<>>)

\* #[derive(Serialize)] on ChatRequestBody; reset_context is skipped when None
SerializeBody(b) ==
    [ model |-> b.model,
      messages |-> [i \in 1..Len(b.messages) |-> SerializeMessage(b.messages[i])],
      stream |-> b.stream,
      max_tokens |-> b.max_tokens,
      reset_context |-> b.reset_context ]

\* stream_single_shot up to post_stream: the body, or Err("invalid mode")
SingleShotBody(mode, text, wav_data, max_tokens) ==
    IF mode \notin {"asr", "tts"} THEN [ok |-> FALSE, body |-> <<>>]
    ELSE LET system == IF mode = "asr" THEN "Perform ASR."
                       ELSE "Perform TTS. Use the UK female voice."
             first == << TextMessage("system", system) >>
             messages ==
                 IF mode = "asr"
                 THEN IF wav_data # None
                      THEN Append(first, CreateAudioMessage(wav_data[1]))
                      ELSE first
                 ELSE IF text # None
                      THEN Append(first, TextMessage("user", text[1]))
                      ELSE first
         IN [ok |-> TRUE,
             body |-> << [ model |-> "",
                           messages |-> messages,
                           stream |-> TRUE,
                           max_tokens |-> max_tokens,
                           reset_context |-> Some(TRUE) ] >>]

\* stream_chat that resets the context on every turn
ChatBodyAlwaysReset(messages, max_tokens, reset_context) ==
    [ model |-> "",
      messages |-> messages,
      stream |-> TRUE,
      max_tokens |-> max_tokens,
      reset_context |-> Some(TRUE) ]

\* stream_chat up to post_stream
ChatBody(messages, max_tokens, reset_context) ==
    [ model |-> "",
      messages |-> messages,
      stream |-> TRUE,
      max_tokens |-> max_tokens,
      reset_context |-> Some(reset_context) ]

\* the message lists run_request builds for a chat turn (main.rs 337-354)
ChatLists ==
    { sys \o txt \o wav :
        sys \in {<<>>, << TextMessage("system", "Respond with interleaved text and audio.") >>},
        txt \in {<<>>} \cup { << TextMessage("user", t) >> : t \in Texts },
        wav \in {<<>>} \cup { << CreateAudioMessage(w) >> : w \in Wavs } }

NoCall ==
    [ fn |-> "none", mode |-> "", text |-> None, wav_data |-> None,
      messages |-> <<>>, reset_context |-> FALSE, before |-> 0 ]

BuilderInit ==
    /\ posted = <<>>
    /\ call = NoCall
    /\ outcome = "none"

\* stream_single_shot(client, base_url, mode, text, wav_data, max_tokens);
\* status is what post_stream makes of the server's answer
StreamSingleShot(mode, text, wav_data, status) ==
    /\ Len(posted) < MaxSent
    /\ call' = [ fn |-> "stream_single_shot", mode |-> mode, text |-> text,
                 wav_data |-> wav_data, messages |-> <<>>,
                 reset_context |-> FALSE, before |-> Len(posted) ]
    /\ LET r == SingleShotBody(mode, text, wav_data, MaxTokens)
       IN IF r.ok
          THEN /\ posted' = Append(posted, SerializeBody(r.body[1]))
               /\ outcome' = status
          ELSE /\ posted' = posted
               /\ outcome' = "invalid mode"
    /\ UNCHANGED <<decVars, playVars, recVars, sesVars>>

\* stream_chat(client, base_url, messages, max_tokens, reset_context)
StreamChat(messages, reset_context, status) ==
    /\ Len(posted) < MaxSent
    /\ call' = [ fn |-> "stream_chat", mode |-> "", text |-> None,
                 wav_data |-> None, messages |-> messages,
                 reset_context |-> reset_context, before |-> Len(posted) ]
    /\ posted' = Append(posted, SerializeBody(ChatBody(messages, MaxTokens, reset_context)))
    /\ outcome' = status
    /\ UNCHANGED <<decVars, playVars, recVars, sesVars>>

\* Ok(res), a transport error, a status that is not a success
PostStatus == {"ok", "send failed", "http error"}

NextRequest ==
    \/ \E mode \in Modes, text \in {None} \cup {Some(t) : t \in Texts},
          wav_data \in {None} \cup {Some(w) : w \in Wavs}, status \in PostStatus :
          StreamSingleShot(mode, text, wav_data, status)
    \/ \E messages \in ChatLists, reset_context \in BOOLEAN, status \in PostStatus :
          StreamChat(messages, reset_context, status)

\* ----------------------------------------------------------- the session
\* requests of one run of the program
MaxTurns == 3

SYSTEM_INTERLEAVED == "Respond with interleaved text and audio."

\* how a request ends: post_stream's three ways, or Ok(res) and then a read
\* error inside process_stream
TurnStatus == PostStatus \cup {"stream failed"}

\* what the user gives one request: a typed line, or audio from /wav, /record
TurnInputs ==
    { [text |-> Some(t), wav |-> None] : t \in Texts }
      \cup { [text |-> None, wav |-> Some(w)] : w \in Wavs }

\* main.rs 122-124 after Args were checked (85-88)
SessionAt(modes) ==
    /\ cur_mode \in modes
    /\ is_first_message = TRUE
    /\ session_new = TRUE
    /\ outcomes = <<>>

SessionInit == SessionAt({"interleaved"})

\* "/mode <arg>" with the flag set again although the mode stays
ModeCommandAlways(arg) ==
    /\ arg \in {"asr", "tts", "interleaved"}
    /\ cur_mode' = arg
    /\ is_first_message' = TRUE
    /\ session_new' = IF arg # cur_mode THEN TRUE ELSE session_new
    /\ UNCHANGED outcomes
    /\ UNCHANGED <<decVars, playVars, bldVars, recVars>>

\* "/mode <arg>" (main.rs 176-196); any other arg only prints the usage
ModeCommand(arg) ==
    /\ arg \in {"asr", "tts", "interleaved"}
    /\ arg # cur_mode
    /\ cur_mode' = arg
    /\ is_first_message' = TRUE
    /\ session_new' = TRUE
    /\ UNCHANGED outcomes
    /\ UNCHANGED <<decVars, playVars, bldVars, recVars>>

\* "/reset" (main.rs 197-205): refused outside interleaved mode
ResetCommand ==
    /\ is_first_message' = IF cur_mode # "interleaved" THEN is_first_message ELSE TRUE
    /\ session_new' = TRUE
    /\ UNCHANGED <<cur_mode, outcomes>>
    /\ UNCHANGED <<decVars, playVars, bldVars, recVars>>

\* the messages of a chat turn (run_request, main.rs 337-354)
ChatMessages(first, text, wav_data) ==
    (IF first THEN << TextMessage("system", SYSTEM_INTERLEAVED) >> ELSE <<>>)
      \o (IF text # None THEN << TextMessage("user", text[1]) >> ELSE <<>>)
      \o (IF wav_data # None THEN << CreateAudioMessage(wav_data[1]) >> ELSE <<>>)

\* run_request with the flag cleared only once the request went through
RunRequestKeepOnError(in, status) ==
    /\ Len(posted) < MaxTurns
    /\ cur_mode = "asr" => in.wav # None
    /\ cur_mode = "tts" => in.text # None
    /\ outcomes' = Append(outcomes, status)
    /\ outcome' = status
    /\ IF cur_mode \in {"asr", "tts"}
       THEN /\ call' = [ fn |-> "stream_single_shot", mode |-> cur_mode,
                         text |-> in.text, wav_data |-> in.wav, messages |-> <<>>,
                         reset_context |-> FALSE, before |-> Len(posted) ]
            /\ posted' = Append(posted, SerializeBody(
                             SingleShotBody(cur_mode, in.text, in.wav, MaxTokens).body[1]))
            /\ UNCHANGED <<is_first_message, session_new>>
       ELSE LET messages == ChatMessages(is_first_message, in.text, in.wav)
                reset == is_first_message
            IN /\ is_first_message' = IF status = "ok" THEN FALSE ELSE is_first_message
               /\ session_new' = FALSE
               /\ call' = [ fn |-> "stream_chat", mode |-> "", text |-> None,
                            wav_data |-> None, messages |-> messages,
                            reset_context |-> reset, before |-> Len(posted) ]
               /\ posted' = Append(posted, SerializeBody(
                                ChatBody(messages, MaxTokens, reset)))
    /\ UNCHANGED cur_mode
    /\ UNCHANGED <<decVars, playVars, recVars>>

\* one request of the loop: main.rs 270-280 refuses asr without audio and tts
\* without text; run_request (334-358) builds and posts the request
RunRequest(in, status) ==
    /\ Len(posted) < MaxTurns
    /\ cur_mode = "asr" => in.wav # None
    /\ cur_mode = "tts" => in.text # None
    /\ outcomes' = Append(outcomes, status)
    /\ outcome' = status
    /\ IF cur_mode \in {"asr", "tts"}
       THEN /\ call' = [ fn |-> "stream_single_shot", mode |-> cur_mode,
                         text |-> in.text, wav_data |-> in.wav, messages |-> <<>>,
                         reset_context |-> FALSE, before |-> Len(posted) ]
            /\ posted' = Append(posted, SerializeBody(
                             SingleShotBody(cur_mode, in.text, in.wav, MaxTokens).body[1]))
            /\ UNCHANGED <<is_first_message, session_new>>
       ELSE LET messages == ChatMessages(is_first_message, in.text, in.wav)
                reset == is_first_message
            IN /\ is_first_message' = FALSE
               /\ session_new' = FALSE
               /\ call' = [ fn |-> "stream_chat", mode |-> "", text |-> None,
                            wav_data |-> None, messages |-> messages,
                            reset_context |-> reset, before |-> Len(posted) ]
               /\ posted' = Append(posted, SerializeBody(
                                ChatBody(messages, MaxTokens, reset)))
    /\ UNCHANGED cur_mode
    /\ UNCHANGED <<decVars, playVars, recVars>>

NextSession ==
    \/ \E arg \in Modes : ModeCommand(arg)
    \/ ResetCommand
    \/ \E in \in TurnInputs, status \in TurnStatus : RunRequest(in, status)

\* --------------------------------------------------------- the recorder
\* bounds: input callback invocations in one recording, samples in one
\* slice the device hands over, times the device is plugged in or out
MaxIn == 2
MaxData == 2
MaxDev == 2

CHANNELS == 1
RECORD_SAMPLE_RATE == 16000

\* the levels the microphone delivers, in tenths: 0.5, -1.5, 0.0, 1.5, -0.5
Levels == <<5, -15, 0, 15, -5>>

\* the slice of the k-th invocation of the input callback
InputSlice(k, len) ==
    [i \in 1..len |-> Levels[(((k - 1) * MaxData + i - 1) % Len(Levels)) + 1]]

\* (s.clamp(-1.0, 1.0) * 32767.0) as i16: the cast truncates towards zero
ToI16(s) ==
    LET clamped == IF s < -10 THEN -10 ELSE IF s > 10 THEN 10 ELSE s
    IN IF clamped >= 0 THEN (clamped * 32767) \div 10
       ELSE -((-clamped * 32767) \div 10)

\* samples_to_wav_bytes(samples, sample_rate): the header's fields and the
\* 16-bit samples of the data chunk
SamplesToWavBytes(s, sample_rate) ==
    [ header |-> <<CHANNELS, sample_rate, 16>>,
      data |-> [i \in 1..Len(s) |-> ToI16(s[i])] ]

\* Ok(Vec::new())
NoBytes == [header |-> <<>>, data |-> <<>>]

RecOk(wav) == [ok |-> TRUE, err |-> "", wav |-> wav]
RecErr(e) == [ok |-> FALSE, err |-> e, wav |-> NoBytes]

RecorderAt(devices) ==
    /\ device \in devices
    /\ rec = None
    /\ rpc = "start"
    /\ stop_flag = FALSE
    /\ stream = "none"
    /\ mutex = "free"
    /\ rsamples = <<>>
    /\ pending = <<>>
    /\ delivered = <<>>
    /\ rresult = None
    /\ nIn = 0
    /\ nDev = 0

RecorderInit == RecorderAt({TRUE})

\* an input device is plugged in or taken away
DeviceChange ==
    /\ nDev < MaxDev
    /\ nDev' = nDev + 1
    /\ device' = ~device
    /\ UNCHANGED <<rec, rpc, stop_flag, stream, mutex, rsamples, pending,
                   delivered, rresult, nIn>>
    /\ UNCHANGED <<decVars, playVars, bldVars, sesVars>>

\* AudioRecorder::new(): available is whether a device exists now
RecorderNew ==
    /\ rpc = "start"
    /\ rec' = Some([sample_rate |-> RECORD_SAMPLE_RATE, available |-> device])
    /\ rpc' = "constructed"
    /\ UNCHANGED <<device, stop_flag, stream, mutex, rsamples, pending,
                   delivered, rresult, nIn, nDev>>
    /\ UNCHANGED <<decVars, playVars, bldVars, sesVars>>

\* record_blocking up to stream.play(): the two availability checks, then
\* the stream is built and started, or the device refuses (opens = FALSE)
RecordBlocking(opens) ==
    /\ rpc = "constructed"
    /\ IF ~rec[1].available
       THEN /\ rresult' = Some(RecErr("no microphone"))
            /\ rpc' = "returned"
            /\ stream' = stream
       ELSE IF ~device
       THEN /\ rresult' = Some(RecErr("no input device"))
            /\ rpc' = "returned"
            /\ stream' = stream
       ELSE IF ~opens
       THEN /\ rresult' = Some(RecErr("device error"))
            /\ rpc' = "returned"
            /\ stream' = stream
       ELSE /\ rresult' = rresult
            /\ rpc' = "poll"
            /\ stream' = "open"
    /\ UNCHANGED <<device, rec, stop_flag, mutex, rsamples, pending, delivered,
                   nIn, nDev>>
    /\ UNCHANGED <<decVars, playVars, bldVars, sesVars>>

\* the callback still invoked after the stream was dropped
InputCallbackAnytime(len) ==
    /\ stream # "none"
    /\ mutex = "free"
    /\ nIn < MaxIn
    /\ nIn' = nIn + 1
    /\ pending' = InputSlice(nIn + 1, len)
    /\ delivered' = delivered \o InputSlice(nIn + 1, len)
    /\ mutex' = "callback"
    /\ UNCHANGED <<device, rec, rpc, stop_flag, stream, rsamples, rresult, nDev>>
    /\ UNCHANGED <<decVars, playVars, bldVars, sesVars>>

\* the input callback is invoked with a slice and takes the lock
InputCallback(len) ==
    /\ stream = "open"
    /\ mutex = "free"
    /\ nIn < MaxIn
    /\ nIn' = nIn + 1
    /\ pending' = InputSlice(nIn + 1, len)
    /\ delivered' = delivered \o InputSlice(nIn + 1, len)
    /\ mutex' = "callback"
    /\ UNCHANGED <<device, rec, rpc, stop_flag, stream, rsamples, rresult, nDev>>
    /\ UNCHANGED <<decVars, playVars, bldVars, sesVars>>

\* extend_from_slice(data), and the guard is dropped
InputAppend ==
    /\ mutex = "callback"
    /\ rsamples' = rsamples \o pending
    /\ pending' = <<>>
    /\ mutex' = "free"
    /\ UNCHANGED <<device, rec, rpc, stop_flag, stream, delivered, rresult,
                   nIn, nDev>>
    /\ UNCHANGED <<decVars, playVars, bldVars, sesVars>>

\* the loop left after its first test, whatever the closure answers
PollOnce ==
    /\ rpc = "poll"
    /\ rpc' = "drop"
    /\ UNCHANGED <<device, rec, stop_flag, stream, mutex, rsamples, pending,
                   delivered, rresult, nIn, nDev>>
    /\ UNCHANGED <<decVars, playVars, bldVars, sesVars>>

\* while !stop(): the closure loads the flag
Poll ==
    /\ rpc = "poll"
    /\ rpc' = IF stop_flag THEN "drop" ELSE "sleep"
    /\ UNCHANGED <<device, rec, stop_flag, stream, mutex, rsamples, pending,
                   delivered, rresult, nIn, nDev>>
    /\ UNCHANGED <<decVars, playVars, bldVars, sesVars>>

\* thread::sleep(50 ms) is over
Wake ==
    /\ rpc = "sleep"
    /\ rpc' = "poll"
    /\ UNCHANGED <<device, rec, stop_flag, stream, mutex, rsamples, pending,
                   delivered, rresult, nIn, nDev>>
    /\ UNCHANGED <<decVars, playVars, bldVars, sesVars>>

\* drop(stream): the device is closed once no invocation is in progress
DropStream ==
    /\ rpc = "drop"
    /\ mutex # "callback"
    /\ stream' = "closed"
    /\ rpc' = "snapshot"
    /\ UNCHANGED <<device, rec, stop_flag, mutex, rsamples, pending, delivered,
                   rresult, nIn, nDev>>
    /\ UNCHANGED <<decVars, playVars, bldVars, sesVars>>

\* samples.lock()
SnapshotLock ==
    /\ rpc = "snapshot"
    /\ mutex = "free"
    /\ mutex' = "poller"
    /\ rpc' = "locked"
    /\ UNCHANGED <<device, rec, stop_flag, stream, rsamples, pending, delivered,
                   rresult, nIn, nDev>>
    /\ UNCHANGED <<decVars, playVars, bldVars, sesVars>>

\* .clone(), the guard is dropped, and the recording is encoded and returned
SnapshotReturn ==
    /\ rpc = "locked"
    /\ LET recorded == rsamples
       IN rresult' = IF recorded = <<>> THEN Some(RecOk(NoBytes))
                     ELSE Some(RecOk(SamplesToWavBytes(recorded, rec[1].sample_rate)))
    /\ mutex' = "free"
    /\ rpc' = "returned"
    /\ UNCHANGED <<device, rec, stop_flag, stream, rsamples, pending, delivered,
                   nIn, nDev>>
    /\ UNCHANGED <<decVars, playVars, bldVars, sesVars>>

\* main.rs 221-222: the user presses Enter and the flag is stored
StopRequested ==
    /\ rpc # "start"
    /\ ~stop_flag
    /\ stop_flag' = TRUE
    /\ UNCHANGED <<device, rec, rpc, stream, mutex, rsamples, pending,
                   delivered, rresult, nIn, nDev>>
    /\ UNCHANGED <<decVars, playVars, bldVars, sesVars>>

NextRecord ==
    \/ DeviceChange
    \/ RecorderNew
    \/ \E opens \in BOOLEAN : RecordBlocking(opens)
    \/ \E len \in 1..MaxData : InputCallback(len)
    \/ InputAppend
    \/ Poll
    \/ Wake
    \/ DropStream
    \/ SnapshotLock
    \/ SnapshotReturn
    \/ StopRequested

\* ------------------------------------------------------------ the player
\* bounds: add_samples calls and callback invocations in one run, samples
\* in one chunk, samples in one hardware buffer, chunks queued at the start
\* of a run that begins with a backlog
MaxAdd == 3
MaxCb == 3
MaxLen == 3
MaxBuf == 2
Backlog == 63

QUEUE_CAPACITY == 64

\* what a position of the hardware buffer holds before the callback writes it
STALE == -1
\* data[written..].fill(0.0)
SILENCE == 0

\* the chunk of the k-th add_samples call: len samples no other call sends
ChunkOf(k, len) == [i \in 1..len |-> k * (MaxLen + 1) + i]

\* try_send as a ring that overwrites: a full channel gives up its oldest chunk
TrySendDropOldest(q, chunk) ==
    IF Len(q) < QUEUE_CAPACITY
    THEN [ok |-> TRUE, queue |-> Append(q, chunk)]
    ELSE [ok |-> TRUE, queue |-> Append(Tail(q), chunk)]

\* self.0.try_send(samples.to_vec()): Ok when the channel has room
TrySend(q, chunk) ==
    IF Len(q) < QUEUE_CAPACITY
    THEN [ok |-> TRUE, queue |-> Append(q, chunk)]
    ELSE [ok |-> FALSE, queue |-> q]

\* the drain with "offset > v.len()" for "offset >= v.len()": a carry that
\* has been played to its end is kept
DrainLeftoverKept(left, n) ==
    IF left = None
    THEN [data |-> [i \in 1..n |-> STALE], written |-> 0, leftover |-> None]
    ELSE LET v == left[1].v
             offset == left[1].offset
             take == Min(n - 0, Len(v) - offset)
         IN [data |-> [i \in 1..n |-> IF i <= take THEN v[offset + i] ELSE STALE],
             written |-> take,
             leftover |-> IF offset + take > Len(v) THEN None
                          ELSE Some([v |-> v, offset |-> offset + take])]

\* audio.rs 63-76: the callback starts on a buffer of n positions and drains
\* the leftover of the previous invocation into it
DrainLeftover(left, n) ==
    IF left = None
    THEN [data |-> [i \in 1..n |-> STALE], written |-> 0, leftover |-> None]
    ELSE LET v == left[1].v
             offset == left[1].offset
             take == Min(n - 0, Len(v) - offset)
         IN [data |-> [i \in 1..n |-> IF i <= take THEN v[offset + i] ELSE STALE],
             written |-> take,
             leftover |-> IF offset + take >= Len(v) THEN None
                          ELSE Some([v |-> v, offset |-> offset + take])]

\* the iteration without chunk.drain(..take): the whole chunk is carried over
RecvStepNoDrain(c, q, left) ==
    IF q = <<>>
    THEN [data |-> c.data, written |-> c.written, queue |-> q,
          leftover |-> left, exit |-> TRUE, empty |-> TRUE]
    ELSE LET chunk == Head(q)
             need == Len(c.data) - c.written
             take == Min(need, Len(chunk))
             data == [i \in 1..Len(c.data) |->
                        IF i > c.written /\ i <= c.written + take
                        THEN chunk[i - c.written] ELSE c.data[i]]
         IN [data |-> data,
             written |-> c.written + take,
             queue |-> Tail(q),
             leftover |-> IF take < Len(chunk)
                          THEN Some([v |-> chunk, offset |-> 0])
                          ELSE left,
             exit |-> take < Len(chunk) \/ c.written + take >= Len(c.data),
             empty |-> FALSE]

\* audio.rs 78-91: one iteration of "while written < data.len()"; exit tells
\* that the loop is left (by break, or because the buffer is full)
RecvStep(c, q, left) ==
    IF q = <<>>
    THEN [data |-> c.data, written |-> c.written, queue |-> q,
          leftover |-> left, exit |-> TRUE, empty |-> TRUE]
    ELSE LET chunk == Head(q)
             need == Len(c.data) - c.written
             take == Min(need, Len(chunk))
             data == [i \in 1..Len(c.data) |->
                        IF i > c.written /\ i <= c.written + take
                        THEN chunk[i - c.written] ELSE c.data[i]]
         IN [data |-> data,
             written |-> c.written + take,
             queue |-> Tail(q),
             leftover |-> IF take < Len(chunk)
                          THEN Some([v |-> SubSeq(chunk, take + 1, Len(chunk)),
                                     offset |-> 0])
                          ELSE left,
             exit |-> take < Len(chunk) \/ c.written + take >= Len(c.data),
             empty |-> FALSE]

\* audio.rs 93-95: the tail the loop did not reach is filled with silence
FillTail(data, written) ==
    [i \in 1..Len(data) |-> IF i > written THEN SILENCE ELSE data[i]]

\* audio.rs 77-92 run to its end with no producer in between
RECURSIVE RecvLoop(_, _, _)
RecvLoop(c, q, left) ==
    LET r == RecvStep(c, q, left)
    IN IF r.exit THEN r
       ELSE RecvLoop([data |-> r.data, written |-> r.written], r.queue, r.leftover)

\* audio.rs 59-96: one whole invocation on a buffer of n positions while
\* running is set, with no producer in between
Invocation(q, left, n) ==
    LET c == DrainLeftover(left, n)
    IN IF c.written < n
       THEN LET r == RecvLoop(c, q, c.leftover)
            IN [data |-> FillTail(r.data, r.written), queue |-> r.queue,
                leftover |-> r.leftover]
       ELSE [data |-> FillTail(c.data, c.written), queue |-> q,
             leftover |-> c.leftover]

CbIdle == [pc |-> "idle", data |-> <<>>, written |-> 0]

PlayerNew(q) ==
    /\ queue = q
    /\ leftover = None
    /\ running = TRUE
    /\ alive = TRUE
    /\ cb = CbIdle
    /\ out = [data |-> <<>>, written |-> 0, empty |-> FALSE]
    /\ req = "running"
    /\ budget = MaxAdd
    /\ nAdd = Len(q)
    /\ nCb = 0
    /\ accepted = [k \in 1..Len(q) |-> q[k][1]]
    /\ dropped = 0
    /\ played = <<>>

\* AudioPlayer::new has returned and run_request has the handle
InitPlay ==
    /\ DecodeFrom({<<>>})
    /\ PlayerNew(<<>>)
    /\ BuilderInit
    /\ RecorderInit
    /\ SessionInit

\* the same, after run_request has pushed one-sample chunks faster than the
\* device has asked for them
InitBacklog ==
    /\ DecodeFrom({<<>>})
    /\ PlayerNew([k \in 1..Min(Backlog, QUEUE_CAPACITY) |-> ChunkOf(k, 1)])
    /\ BuilderInit
    /\ RecorderInit
    /\ SessionInit

\* add_samples without the is_empty test
AddSamplesEmpty(len) ==
    /\ req = "running"
    /\ budget > 0
    /\ budget' = budget - 1
    /\ nAdd' = nAdd + 1
    /\ LET chunk == ChunkOf(nAdd + 1, len)
           sent == TrySend(queue, chunk)
       IN /\ queue' = sent.queue
          /\ accepted' = IF sent.ok THEN accepted \o chunk ELSE accepted
          /\ dropped' = IF sent.ok THEN dropped ELSE dropped + 1
    /\ UNCHANGED <<leftover, running, alive, cb, out, req, nCb, played>>
    /\ UNCHANGED <<decVars, bldVars, recVars, sesVars>>

\* PlaybackHandle::add_samples(samples), from any holder of a handle
AddSamples(len) ==
    /\ req = "running"
    /\ budget > 0
    /\ budget' = budget - 1
    /\ nAdd' = nAdd + 1
    /\ LET chunk == ChunkOf(nAdd + 1, len)
           sent == TrySend(queue, chunk)
       IN IF len > 0
          THEN /\ queue' = sent.queue
               /\ accepted' = IF sent.ok THEN accepted \o chunk ELSE accepted
               /\ dropped' = IF sent.ok THEN dropped ELSE dropped + 1
          ELSE UNCHANGED <<queue, accepted, dropped>>
    /\ UNCHANGED <<leftover, running, alive, cb, out, req, nCb, played>>
    /\ UNCHANGED <<decVars, bldVars, recVars, sesVars>>

\* the invocation returns: the device takes the buffer as it stands
CallbackReturn(data, written, empty) ==
    /\ cb' = CbIdle
    /\ out' = [data |-> data, written |-> written, empty |-> empty]
    /\ played' = played \o SubSeq(data, 1, written)

\* the device invokes the output callback on a buffer of n positions
OutputCallback(n) ==
    /\ alive
    /\ cb.pc = "idle"
    /\ nCb < MaxCb
    /\ nCb' = nCb + 1
    /\ IF ~running
       THEN /\ CallbackReturn([i \in 1..n |-> STALE], 0, FALSE)
            /\ UNCHANGED leftover
       ELSE LET c == DrainLeftover(leftover, n)
            IN /\ leftover' = c.leftover
               /\ IF c.written < n
                  THEN /\ cb' = [pc |-> "loop", data |-> c.data, written |-> c.written]
                       /\ UNCHANGED <<out, played>>
                  ELSE CallbackReturn(FillTail(c.data, c.written), c.written, FALSE)
    /\ UNCHANGED <<queue, running, alive, req, budget, nAdd, accepted, dropped>>
    /\ UNCHANGED <<decVars, bldVars, recVars, sesVars>>

\* the callback calls rx.try_recv() once more
CallbackRecv ==
    /\ cb.pc = "loop"
    /\ LET c == RecvStep(cb, queue, leftover)
       IN /\ queue' = c.queue
          /\ leftover' = c.leftover
          /\ IF c.exit
             THEN CallbackReturn(FillTail(c.data, c.written), c.written, c.empty)
             ELSE /\ cb' = [pc |-> "loop", data |-> c.data, written |-> c.written]
                  /\ UNCHANGED <<out, played>>
    /\ UNCHANGED <<running, alive, req, budget, nAdd, nCb, accepted, dropped>>
    /\ UNCHANGED <<decVars, bldVars, recVars, sesVars>>

\* run_request returns (process_stream ended, in whatever way) and drops the
\* handle it fed
RequestEnd ==
    /\ req = "running"
    /\ req' = "ended"
    /\ UNCHANGED <<queue, leftover, running, alive, cb, out, budget, nAdd, nCb,
                   accepted, dropped, played>>
    /\ UNCHANGED <<decVars, bldVars, recVars, sesVars>>

\* main.rs 311-313 calls p.stop(); audio.rs 118: running.store(false)
StopStore ==
    /\ req = "ended"
    /\ running
    /\ running' = FALSE
    /\ UNCHANGED <<queue, leftover, alive, cb, out, req, budget, nAdd, nCb,
                   accepted, dropped, played>>
    /\ UNCHANGED <<decVars, bldVars, recVars, sesVars>>

\* audio.rs 119: the stream is taken out of the guard and dropped, which
\* closes the device once no invocation is in progress
StopDrop ==
    /\ ~running
    /\ alive
    /\ cb.pc = "idle"
    /\ alive' = FALSE
    /\ UNCHANGED <<queue, leftover, running, cb, out, req, budget, nAdd, nCb,
                   accepted, dropped, played>>
    /\ UNCHANGED <<decVars, bldVars, recVars, sesVars>>

NextPlay ==
    \/ \E len \in 0..MaxLen : AddSamples(len)
    \/ \E n \in 1..MaxBuf : OutputCallback(n)
    \/ CallbackRecv
    \/ RequestEnd
    \/ StopStore
    \/ StopDrop

SpecPlay == InitPlay /\ [][NextPlay]_vars

SpecBacklog == InitBacklog /\ [][NextPlay]_vars

NextDecode ==
    \/ Tick
    \/ \E k \in 1..MaxChunk : ReadChunk(k)
    \/ ProcessLine
    \/ StreamEnd
    \/ ReadError
    \/ Return

Idle == PlayerNew(<<>>) /\ BuilderInit /\ RecorderInit /\ SessionInit

InitDecode == DecodeFrom(Streams) /\ Idle

InitWide == DecodeFrom(WideStreams) /\ Idle

SpecDecode == InitDecode /\ [][NextDecode]_vars

SpecWide == InitWide /\ [][NextDecode]_vars

InitAudio == DecodeFrom(AudioStreams) /\ Idle

SpecAudio == InitAudio /\ [][NextDecode]_vars

InitPlain == DecodeFrom(PlainStreams) /\ Idle

SpecPlain == InitPlain /\ [][NextDecode]_vars

InitRequest == DecodeFrom({<<>>}) /\ Idle

SpecRequest == InitRequest /\ [][NextRequest]_vars

InitSession ==
    /\ DecodeFrom({<<>>})
    /\ PlayerNew(<<>>)
    /\ BuilderInit
    /\ RecorderInit
    /\ SessionAt({"asr", "tts", "interleaved"})

SpecSession == InitSession /\ [][NextSession]_vars

InitRecord ==
    /\ DecodeFrom({<<>>})
    /\ PlayerNew(<<>>)
    /\ BuilderInit
    /\ RecorderAt(BOOLEAN)
    /\ SessionInit

SpecRecord == InitRecord /\ [][NextRecord]_vars

\* the recording thread and the audio thread are scheduled; nothing makes
\* the user press Enter or the device change
SpecRecordFair ==
    /\ SpecRecord
    /\ WF_vars(Poll)
    /\ WF_vars(Wake)
    /\ WF_vars(DropStream)
    /\ WF_vars(SnapshotLock)
    /\ WF_vars(SnapshotReturn)
    /\ WF_vars(InputAppend)

\* ================================================================ claims
\* what a decode hands to its caller, timing left out
Outputs(d) ==
    [ calls |-> d.calls,
      full_text |-> FullText(d.text_chunks),
      text_chunk_count |-> Len(d.text_chunks),
      total_audio_samples |-> d.total_samples,
      completed |-> d.completed ]

\* the record a line carries for the decoder, read off the line alone
DataOf(line) == StripPrefix(line)
HasChoice(line) ==
    /\ DataOf(line) \notin {<<>>, <<DONE>>}
    /\ ParseChunk(DataOf(line)).ok
    /\ ParseChunk(DataOf(line)).val.choices # None
    /\ ParseChunk(DataOf(line)).val.choices[1] # <<>>
FirstChoice(line) == ParseChunk(DataOf(line)).val.choices[1][1]
IsStopLine(line) == HasChoice(line) /\ FirstChoice(line).finish_reason = Some("stop")
\* empty, the sentinel, not JSON of the record's shape, choices missing or empty
IsBadLine(line) == ~HasChoice(line)
IsDeltaLine(line) ==
    HasChoice(line) /\ ~IsStopLine(line) /\ FirstChoice(line).delta # None

\* the step took one line out of the buffer
TookLine == Len(dec'.lines) = Len(dec.lines) + 1
LastLine(d) == d.lines[Len(d.lines)]
SeenStop(d) == \E i \in 1..Len(d.lines) : IsStopLine(d.lines[i])
SameStats(d, e) ==
    /\ d.ttft = e.ttft
    /\ d.text_chunks = e.text_chunks
    /\ d.audio_chunks = e.audio_chunks
    /\ d.total_samples = e.total_samples

\* C1: however the bytes of a response are cut into network chunks, the
\* decode ends with the same callbacks in the same order, the same full text,
\* the same counts and the same completed flag as when the whole response
\* comes as one chunk.
C1_ChunkIndependence ==
    pc = "done" => Outputs(dec) = Outputs(OneChunk(body))

\* C2: the step that takes a line whose first choice has finish_reason "stop"
\* invokes no callback, changes no statistic, sets completed and leaves the
\* loop; once completed is set no further line is taken, no further chunk
\* is read and no callback or statistic changes.
C2_StopTerminates ==
    [][ /\ (TookLine /\ IsStopLine(LastLine(dec')))
            => /\ dec'.calls = dec.calls
               /\ SameStats(dec, dec')
               /\ dec'.completed
               /\ pc' = "finish"
        /\ dec.completed
            => /\ dec' = dec
               /\ pos' = pos
               /\ pc' \in {"finish", "done"} ]_vars

C2_Witness ==
    /\ pc = "done"
    /\ dec.completed
    /\ \E i \in 1..Len(dec.buffer) : dec.buffer[i] = DONE
    /\ Find(dec.buffer, NL) > 0
    /\ pos < Len(body)

\* C3: a decode that ends without a read error returns successfully, with
\* completed true exactly when a line with finish_reason "stop" was taken,
\* with the text and counts accumulated so far, and the caller warns exactly
\* when completed is false.
C3_CompletedIffStop ==
    pc = "done" =>
        /\ result # None /\ result[1].ok
        /\ result[1].stats[1].completed = SeenStop(dec)
        /\ warned = ~SeenStop(dec)
        /\ result[1].full_text = Some(FullText(dec.text_chunks))
        /\ result[1].stats[1].text_chunk_count = Len(dec.text_chunks)
        /\ result[1].stats[1].total_audio_samples = dec.total_samples

C3_Witness ==
    /\ pc = "done"
    /\ result[1].ok
    /\ ~result[1].stats[1].completed
    /\ warned
    /\ result[1].stats[1].text_chunk_count > 0
    /\ \E i, j \in 1..Len(dec.lines) :
          /\ HasChoice(dec.lines[i])
          /\ FirstChoice(dec.lines[i]).finish_reason = Some("length")
          /\ DataOf(dec.lines[j]) = <<DONE>>

\* the lines of ls that are not bad, each ended by a newline
RECURSIVE GoodLines(_)
GoodLines(ls) ==
    IF ls = <<>> THEN <<>>
    ELSE IF IsBadLine(Head(ls)) THEN GoodLines(Tail(ls))
    ELSE Head(ls) \o <<NL>> \o GoodLines(Tail(ls))

\* C4: the step that takes a bad line (empty, the [DONE] sentinel, not
\* parseable, choices missing or empty) invokes no callback, changes none of
\* ttft, the text accumulator, the counts and completed, and stays in the
\* read loop; and the decode ends as it would with the bad lines removed.
C4_BadLineSkipped ==
    /\ [][ (TookLine /\ IsBadLine(LastLine(dec')))
              => /\ dec' = [dec EXCEPT !.buffer = dec'.buffer, !.lines = dec'.lines]
                 /\ pc' \in {"lines", "await"} ]_vars
    /\ [](pc = "done" => Outputs(dec) = Outputs(OneChunk(GoodLines(dec.lines))))

C4_Witness ==
    /\ pc = "done"
    /\ Len(dec.lines) = 3
    /\ IsDeltaLine(dec.lines[1])
    /\ DataOf(dec.lines[2]) = <<JBAD>>
    /\ IsDeltaLine(dec.lines[3])
    /\ Len(dec.text_chunks) = 1
    /\ dec.total_samples = 1

\* the clock values of the deltas that were accepted
AcceptedTimes(d) ==
    {d.text_chunks[i][1] : i \in 1..Len(d.text_chunks)}
        \cup {d.audio_chunks[i][1] : i \in 1..Len(d.audio_chunks)}

\* C5: at the end of a decode ttft_secs is None exactly when no text delta
\* and no audio delta was accepted, and otherwise is the clock value sampled
\* for the earliest accepted delta.
C5_TtftFirstAccepted ==
    pc = "done" =>
        LET st == result[1].stats[1]
        IN /\ (st.ttft_secs = None)
                <=> (st.text_chunk_count = 0 /\ st.total_audio_samples = 0)
           /\ st.ttft_secs # None
                => /\ st.ttft_secs[1] \in AcceptedTimes(dec)
                   /\ \A t \in AcceptedTimes(dec) : st.ttft_secs[1] <= t

\* C6: every invocation of the output callback leaves every position of the
\* hardware buffer holding a copied sample or silence, never what it held
\* before, in every reachable state of the player (also once stop() has
\* cleared running and the stream is still driven).
C6_BufferDefined ==
    \A i \in 1..Len(out.data) : out.data[i] # STALE

IsPrefix(a, b) == Len(a) <= Len(b) /\ a = SubSeq(b, 1, Len(a))

\* chunks of 100, 30 and 50 samples and three invocations on 80 positions
Scenario80 ==
    LET c1 == [i \in 1..100 |-> 1000 + i]
        c2 == [i \in 1..30 |-> 2000 + i]
        c3 == [i \in 1..50 |-> 3000 + i]
        r1 == Invocation(<<c1, c2, c3>>, None, 80)
        r2 == Invocation(r1.queue, r1.leftover, 80)
        r3 == Invocation(r2.queue, r2.leftover, 80)
    IN /\ r1.data = SubSeq(c1, 1, 80)
       /\ r2.data = SubSeq(c1, 81, 100) \o c2 \o SubSeq(c3, 1, 30)
       /\ r3.data = SubSeq(c3, 31, 50) \o [i \in 1..60 |-> SILENCE]

\* C7: the samples the callbacks copy out are, in order, a prefix of the
\* accepted chunks laid end to end (none lost, repeated or reordered);
\* silence stands only behind the copied samples of an invocation that found
\* the queue empty; and chunks of 100, 30, 50 played through buffers of 80
\* come out as 80 | 20+30+30 | 20 + 60 of silence.
C7_PlaybackOrder ==
    /\ IsPrefix(played, accepted)
    /\ \A i \in 1..Len(out.data) :
          /\ i <= out.written => out.data[i] \notin {SILENCE, STALE}
          /\ out.data[i] = SILENCE => (i > out.written /\ out.empty)
    /\ Scenario80

C7_Witness ==
    /\ cb.pc = "idle"
    /\ Len(played) >= 3
    /\ played = accepted
    /\ out.empty
    /\ out.written > 0
    /\ out.written < Len(out.data)
    /\ out.data[Len(out.data)] = SILENCE
    /\ nCb >= 2

\* C8: the queue never holds more than QUEUE_CAPACITY chunks, and an
\* add_samples call made while it holds that many changes neither the queue
\* nor its order nor anything else of the player: the new chunk is the one
\* that is lost.
C8_QueueBounded ==
    [][ /\ Len(queue') <= QUEUE_CAPACITY
        /\ (nAdd' = nAdd + 1 /\ Len(queue) = QUEUE_CAPACITY)
            => /\ queue' = queue
               /\ accepted' = accepted
               /\ UNCHANGED <<leftover, running, alive, cb, out, played>> ]_vars

C8_Witness ==
    /\ Len(queue) = QUEUE_CAPACITY
    /\ dropped > 0
    /\ Len(accepted) < nAdd

LeftoverOk(l) ==
    l = None \/ (0 <= l[1].offset /\ l[1].offset < Len(l[1].v))

\* the samples the step copied into the hardware buffer
Copied ==
    IF cb'.pc = "loop"
    THEN SubSeq(cb'.data, cb.written + 1, cb'.written)
    ELSE SubSeq(played', Len(played) + 1, Len(played'))

\* C9: the carry is absent or one chunk with 0 <= offset < length; a step
\* changes a carry only by playing it on from its offset, clears it exactly
\* when it has played its last sample, and stores a new carry only when none
\* is left.
C9_LeftoverCarry ==
    [][ /\ LeftoverOk(leftover')
        /\ (leftover # None /\ leftover' # leftover)
            => LET v == leftover[1].v
                   offset == leftover[1].offset
               IN IF leftover' = None
                  THEN SubSeq(Copied, 1, Len(v) - offset)
                           = SubSeq(v, offset + 1, Len(v))
                  ELSE /\ leftover'[1].v = v
                       /\ leftover'[1].offset > offset
                       /\ Copied = SubSeq(v, offset + 1, leftover'[1].offset)
        /\ (leftover = None /\ leftover' # None)
            => leftover'[1].offset = 0 ]_vars

C9_Witness ==
    /\ cb.pc = "idle"
    /\ leftover # None
    /\ leftover[1].offset > 0
    /\ Len(leftover[1].v) > leftover[1].offset

\* C10: output is not halted while accepted samples are unplayed: once the
\* request has ended, running is cleared and the stream dropped only when
\* the queue and the carry are empty.
C10_QueuedAudioPlayed ==
    (~running \/ ~alive) => (queue = <<>> /\ leftover = None /\ played = accepted)

\* C11: every body the builder posts has stream = true; a single-shot call
\* for asr or tts posts one body with reset_context = true whatever was
\* posted before; a chat call posts one body with exactly the caller's
\* reset_context and the caller's messages in order; a single-shot call for
\* any other mode returns "invalid mode" and posts nothing.
C11_RequestShape ==
    [][ LET last == posted'[Len(posted')]
        IN /\ \A i \in 1..Len(posted') : posted'[i].stream = TRUE
           /\ (call'.fn = "stream_single_shot" /\ call'.mode \in {"asr", "tts"})
               => /\ posted' = Append(posted, last)
                  /\ last.reset_context = Some(TRUE)
           /\ (call'.fn = "stream_single_shot" /\ call'.mode \notin {"asr", "tts"})
               => /\ outcome' = "invalid mode"
                  /\ posted' = posted
           /\ call'.fn = "stream_chat"
               => /\ posted' = Append(posted, last)
                  /\ last.reset_context = Some(call'.reset_context)
                  /\ Len(last.messages) = Len(call'.messages)
                  /\ \A i \in 1..Len(last.messages) :
                        last.messages[i] = SerializeMessage(call'.messages[i]) ]_vars

C11_Witness ==
    /\ Len(posted) = 2
    /\ posted[1].reset_context = Some(FALSE)
    /\ Len(posted[1].messages) = 2
    /\ call.fn = "stream_single_shot"
    /\ call.mode = "tts"
    /\ call.before = 1
    /\ posted[2].reset_context = Some(TRUE)
    /\ posted[2].stream

\* the members of a serialised message after "role"
Payloads(m) == SubSeq(m, 2, Len(m))

\* C12: every serialised message is an object with "role" and at most one
\* payload, the payload always under the key "content": a text string, or
\* for an audio message a list of exactly one entry {type: input_audio,
\* input_audio: {data: base64 of the bytes, format: wav}}.
C12_WireShape ==
    /\ B64Encode(<<82, 73, 70>>) = <<"U", "k", "l", "G">>
    /\ B64Encode(<<0, 0, 128, 63>>) = <<"A", "A", "C", "A", "P", "w", "=", "=">>
    /\ \A i \in 1..Len(posted) : \A j \in 1..Len(posted[i].messages) :
          LET m == posted[i].messages[j]
          IN /\ m[1][1] = "role"
             /\ Len(Payloads(m)) <= 1
             /\ \A k \in 1..Len(Payloads(m)) :
                   LET key == Payloads(m)[k][1]
                       value == Payloads(m)[k][2]
                   IN /\ key = "content"
                      /\ value.t = "list"
                          => /\ Len(value.a) = 1
                             /\ value.a[1].type = "input_audio"
                             /\ value.a[1].input_audio.format = "wav"
                             /\ \E w \in Wavs :
                                   value.a[1].input_audio.data = B64Encode(w)

\* the calls the step added
NewCalls == SubSeq(dec'.calls, Len(dec.calls) + 1, Len(dec'.calls))

\* the audio payload of a delta line, decoded ("" when it is not base64)
HasAudio(line) ==
    IsDeltaLine(line) /\ FirstChoice(line).delta[1].audio_chunk # None
AudioBytes(line) == B64Decode(FirstChoice(line).delta[1].audio_chunk[1].data).val

\* bytes 4i..4i+3 of the payload as one little-endian 32-bit pattern
Pattern(bytes, i) ==
    bytes[4 * i + 1] + 256 * bytes[4 * i + 2]
      + 65536 * bytes[4 * i + 3] + 16777216 * bytes[4 * i + 4]

\* C13: an audio_chunk that decodes to 4k+r bytes gives exactly k samples,
\* sample i from bytes 4i..4i+3 in little-endian order, the last r bytes
\* dropped; with k > 0 on_audio gets these k samples and total_samples grows
\* by k; with k = 0 (also when the payload is not base64) neither on_audio
\* nor on_text(marker) is called and total_samples stays.
C13_AudioSampleCount ==
    [][ (TookLine /\ HasAudio(LastLine(dec')))
        => LET bytes == AudioBytes(LastLine(dec'))
               k == Len(bytes) \div 4
           IN IF k > 0
              THEN /\ dec'.total_samples = dec.total_samples + k
                   /\ Len(NewCalls) >= 2
                   /\ NewCalls[Len(NewCalls) - 1] = OnText(<<NOTE>>)
                   /\ NewCalls[Len(NewCalls)].fn = "on_audio"
                   /\ Len(NewCalls[Len(NewCalls)].samples) = k
                   /\ \A i \in 0..(k - 1) :
                         NewCalls[Len(NewCalls)].samples[i + 1] = Pattern(bytes, i)
                   /\ \A j \in 1..(Len(NewCalls) - 2) : NewCalls[j].fn = "on_text"
              ELSE /\ dec'.total_samples = dec.total_samples
                   /\ dec'.audio_chunks = dec.audio_chunks
                   /\ \A j \in 1..Len(NewCalls) :
                         /\ NewCalls[j].fn # "on_audio"
                         /\ NewCalls[j] # OnText(<<NOTE>>) ]_vars

C13_Witness ==
    /\ pc = "done"
    /\ Len(dec.lines) = 3
    /\ HasAudio(dec.lines[1]) /\ Len(AudioBytes(dec.lines[1])) = 8
    /\ HasAudio(dec.lines[2]) /\ Len(AudioBytes(dec.lines[2])) = 6
    /\ HasAudio(dec.lines[3]) /\ Len(AudioBytes(dec.lines[3])) = 3
    /\ dec.total_samples = 3
    /\ dec.calls = << OnText(<<NOTE>>), OnAudio(<<1065353216, 1073741824>>),
                      OnText(<<NOTE>>), OnAudio(<<1065353216>>) >>

\* the body with the "data: " marker put before every line that lacks it
RECURSIVE WithMarker(_)
WithMarker(b) ==
    IF Find(b, NL) = 0 THEN b
    ELSE LET line == SubSeq(b, 1, Find(b, NL) - 1)
             rest == SubSeq(b, Find(b, NL) + 1, Len(b))
         IN (IF Len(line) >= 2 /\ line[1] = DA /\ line[2] = TA
             THEN line ELSE Prefixed(line))
              \o <<NL>> \o WithMarker(rest)

\* C17: the "data: " marker is optional: a response whose records come
\* without it is decoded with the same callbacks, statistics and stop
\* handling as the same response with the marker on every line.
C17_MarkerOptional ==
    pc = "done" => Outputs(dec) = Outputs(OneChunk(WithMarker(body)))

\* C18: a line yields one event at most: no single line adds both a text
\* delta (text_chunk_count) and an audio delta (total_audio_samples), and
\* the deltas counted never outnumber the lines taken.
C18_OneEventPerLine ==
    [][ TookLine
        => /\ ~ (/\ Len(dec'.text_chunks) > Len(dec.text_chunks)
                 /\ dec'.total_samples > dec.total_samples)
           /\ Len(dec'.text_chunks) + Len(dec'.audio_chunks) <= Len(dec'.lines) ]_vars

\* an on_text call that is the marker of the on_audio call right after it
IsMarker(calls, i) ==
    /\ calls[i] = OnText(<<NOTE>>)
    /\ i < Len(calls)
    /\ calls[i + 1].fn = "on_audio"

\* the texts of the on_text calls that are not markers, laid end to end
RECURSIVE Delivered(_, _)
Delivered(calls, n) ==
    IF n = 0 THEN <<>>
    ELSE Delivered(calls, n - 1)
           \o (IF calls[n].fn = "on_text" /\ ~IsMarker(calls, n)
               THEN calls[n].text ELSE <<>>)

\* the calls a line asks for, read off the line alone
CallsOf(line) ==
    IF ~IsDeltaLine(line) THEN <<>>
    ELSE LET delta == FirstChoice(line).delta[1]
         IN (IF delta.content # None /\ delta.content[1] # <<>>
             THEN <<"on_text">> ELSE <<>>)
              \o (IF HasAudio(line) /\ Len(AudioBytes(line)) >= 4
                  THEN <<"on_text", "on_audio">> ELSE <<>>)

\* C19: at every point of a decode the text accumulated is the non-empty
\* texts handed to on_text so far, in order, and text_chunk_count their
\* number; the marker is neither in the text nor counted; every on_audio
\* call comes right after on_text(marker); calls are only ever added at the
\* end, each line adding its own.
C19_TextAndCallbackOrder ==
    /\ [] /\ FullText(dec.text_chunks) = Delivered(dec.calls, Len(dec.calls))
          /\ Len(dec.text_chunks)
               = Cardinality({i \in 1..Len(dec.calls) :
                                 dec.calls[i].fn = "on_text" /\ ~IsMarker(dec.calls, i)})
          /\ \A i \in 1..Len(dec.calls) :
                /\ (dec.calls[i].fn = "on_text" /\ ~IsMarker(dec.calls, i))
                    => dec.calls[i].text # <<>>
                /\ dec.calls[i].fn = "on_audio"
                    => (i > 1 /\ dec.calls[i - 1] = OnText(<<NOTE>>))
          /\ pc = "done" => result[1].full_text = Some(Delivered(dec.calls, Len(dec.calls)))
    /\ [][ /\ dec.calls = SubSeq(dec'.calls, 1, Len(dec.calls))
           /\ TookLine => [j \in 1..Len(NewCalls) |-> NewCalls[j].fn]
                              = CallsOf(LastLine(dec'))
           /\ ~TookLine => dec'.calls = dec.calls ]_vars

C19_Witness ==
    /\ pc = "done"
    /\ Len(dec.lines) = 3
    /\ dec.calls = << OnText(<<"Hi">>), OnText(<<NOTE>>), OnAudio(<<1065353216>>),
                      OnText(<<"Hi">>) >>
    /\ dec.lines[2] = Prefixed(Record(Content(<<>>), RCLOSE))
    /\ result[1].full_text = Some(<<"Hi", "Hi">>)
    /\ result[1].stats[1].text_chunk_count = 2

\* C20: when reading the next chunk fails, process_stream returns the error
\* at once: no text, no statistics, no further line and no further callback,
\* though the callbacks of the lines decoded before have been made.
C20_TransportFailureFatal ==
    /\ [](pc = "failed"
            => /\ result # None
               /\ ~result[1].ok
               /\ result[1].full_text = None
               /\ result[1].stats = None
               /\ ~warned)
    /\ [][ /\ (pc' = "failed" /\ pc # "failed") => (pc = "await" /\ dec' = dec)
           /\ pc = "failed" => UNCHANGED decVars ]_vars

C20_Witness ==
    /\ pc = "failed"
    /\ dec.calls # <<>>
    /\ dec.text_chunks # <<>>
    /\ dec.total_samples > 0
    /\ pos < Len(body)
    /\ result = Some(Failed)

Polling == rpc \in {"poll", "sleep"}

\* C14: once the stop predicate is true the call returns, after one more
\* sleep at most, with the input device closed; while the predicate is false
\* the call stays in its loop with the device open; the polling thread holds
\* no lock on the capture buffer while it sleeps, nor at any time the device
\* is open, so the callback's append never waits for it.
C14_CaptureTerminates ==
    /\ (stop_flag /\ Polling) ~> (rpc = "returned" /\ stream = "closed")
    /\ [][ /\ (Polling /\ ~stop_flag) => (Polling' /\ stream' = "open")
           /\ (rpc = "poll" /\ stop_flag) => rpc' # "sleep" ]_vars
    /\ [](Polling => (stream = "open" /\ mutex # "poller"))
    /\ [](mutex = "poller" => stream = "closed")
    /\ []((rpc = "returned" /\ rresult[1].ok) => (stop_flag /\ stream = "closed"))

C14_Witness ==
    /\ rpc = "returned"
    /\ stop_flag
    /\ stream = "closed"
    /\ rresult # None
    /\ rresult[1].ok
    /\ nIn = MaxIn
    /\ mutex = "free"

\* record_blocking answered that there is no microphone to record from
NoMicrophone(r) ==
    r \in {Some(RecErr("no microphone")), Some(RecErr("no input device"))}

\* C15: record_blocking fails with "no microphone", no device opened, when
\* no input device exists at the time of the call, and does not fail so when
\* one exists at that time, whatever existed when the recorder was made.
C15_AvailabilityAtCallTime ==
    [][ (rpc = "constructed" /\ rpc' # "constructed")
        => /\ ~device => (NoMicrophone(rresult') /\ stream' = "none")
           /\ device => ~NoMicrophone(rresult') ]_vars

\* C16: the capture buffer grows only by the input callback's append, made
\* under the lock; the snapshot is taken with the stop seen and the stream
\* closed, so nothing is appended during or after it, and what is encoded is
\* every sample the callback was given, in the order given.
C16_CaptureComplete ==
    /\ [][ rsamples' # rsamples
           => /\ mutex = "callback"
              /\ mutex' = "free"
              /\ stream = "open"
              /\ rsamples' = rsamples \o pending ]_vars
    /\ [](rpc \in {"locked", "returned"}
            => (mutex # "callback" /\ pending = <<>> /\ rsamples = delivered))
    /\ [](rpc = "locked" => (stop_flag /\ stream = "closed" /\ mutex = "poller"))
    /\ []((rpc = "returned" /\ rresult[1].ok)
            => /\ Len(rresult[1].wav.data) = Len(delivered)
               /\ \A i \in 1..Len(delivered) :
                     rresult[1].wav.data[i] = ToI16(delivered[i])
               /\ (delivered = <<>>) = (rresult[1].wav.header = <<>>))

C16_Witness ==
    /\ rpc = "returned"
    /\ rresult[1].ok
    /\ nIn = 2
    /\ delivered = <<5, -15, 0>>
    /\ rresult[1].wav.data = <<16383, -32767, 0>>
    /\ rresult[1].wav.header = <<CHANNELS, RECORD_SAMPLE_RATE, 16>>

\* the step posted a chat request, a single-shot request
ChatStep == Len(posted') = Len(posted) + 1 /\ call'.fn = "stream_chat"
SingleShotStep == Len(posted') = Len(posted) + 1 /\ call'.fn = "stream_single_shot"

\* the roles of a posted body's messages, and its system text
RoleOf(m) == m[1][2].s
HasSystem(b) == \E j \in 1..Len(b.messages) : RoleOf(b.messages[j]) = "system"
IsChatBody(b) ==
    \A j \in 1..Len(b.messages) :
        RoleOf(b.messages[j]) = "system" => b.messages[j][2][2].s = SYSTEM_INTERLEAVED

\* C21: a chat request carries reset_context = true exactly when it is the
\* first chat request of a session (a session starts with the program, at
\* /reset, and at a /mode that changes the mode), and carries the system
\* message exactly then; a single-shot request leaves the first-turn flag,
\* and so which chat request counts as first, as it was.
C21_SessionResetPolicy ==
    [][ LET last == posted'[Len(posted')]
        IN /\ ChatStep
               => /\ last.reset_context = Some(session_new)
                  /\ HasSystem(last) <=> session_new
                  /\ session_new => RoleOf(last.messages[1]) = "system"
                  /\ ~session_new'
           /\ SingleShotStep
               => /\ is_first_message' = is_first_message
                  /\ session_new' = session_new
                  /\ last.reset_context = Some(TRUE) ]_vars

C21_Witness ==
    /\ Len(posted) = 3
    /\ cur_mode = "interleaved"
    /\ call.fn = "stream_chat"
    /\ \A i \in 1..3 : IsChatBody(posted[i])
    /\ posted[1].reset_context = Some(TRUE)
    /\ posted[2].reset_context = Some(FALSE)
    /\ ~HasSystem(posted[2])
    /\ posted[3].reset_context = Some(TRUE)
    /\ HasSystem(posted[3])

\* C24: the first-turn flag is cleared when the chat request is built,
\* however the request ends: after a first chat request that failed, the next
\* chat request carries reset_context = false and no system message, unless
\* /reset or a change of mode came between.
C24_FlagConsumedOnBuild ==
    [][ LET last == posted'[Len(posted')]
        IN ChatStep
            => /\ is_first_message' = FALSE
               /\ (/\ outcomes # <<>>
                   /\ outcomes[Len(outcomes)] # "ok"
                   /\ IsChatBody(posted[Len(posted)])
                   /\ ~session_new)
                   => /\ last.reset_context = Some(FALSE)
                      /\ ~HasSystem(last) ]_vars

C24_Witness ==
    /\ Len(posted) = 2
    /\ outcomes[1] \in {"send failed", "http error", "stream failed"}
    /\ IsChatBody(posted[1])
    /\ posted[1].reset_context = Some(TRUE)
    /\ HasSystem(posted[1])
    /\ call.fn = "stream_chat"
    /\ posted[2].reset_context = Some(FALSE)
    /\ ~HasSystem(posted[2])
    /\ ~is_first_message

\* the index of the last newline of a body, 0 when it has none
LastNL(b) ==
    IF \E i \in 1..Len(b) : b[i] = NL
    THEN CHOOSE i \in 1..Len(b) : b[i] = NL /\ \A j \in (i + 1)..Len(b) : b[j] # NL
    ELSE 0

\* C22: what follows the last newline of the body is never decoded: the
\* decode ends as that of the body cut after its last newline, with no
\* callback and no statistic from the rest, which stays in the line buffer;
\* a stop record without its newline leaves completed = false.
C22_UnterminatedTailDropped ==
    /\ [](pc = "done"
            => /\ Outputs(dec) = Outputs(OneChunk(SubSeq(body, 1, LastNL(body))))
               /\ Len(dec.lines) <= Cardinality({i \in 1..Len(body) : body[i] = NL})
               /\ ~dec.completed
                   => /\ dec.buffer = SubSeq(body, LastNL(body) + 1, Len(body))
                      /\ ~result[1].stats[1].completed
                      /\ warned)
    /\ [][ (pc = "await" /\ pos = Len(body) /\ pc' = "finish" /\ pos' = pos)
           => dec' = dec ]_vars

C22_Witness ==
    /\ pc = "done"
    /\ dec.buffer = Prefixed(Record(<<>>, RSTOP))
    /\ Len(dec.lines) = 2
    /\ dec.calls # <<>>
    /\ ~dec.completed
    /\ ~result[1].stats[1].completed
    /\ warned

\* the step is one iteration of the callback's receive loop
RecvIteration ==
    /\ cb.pc = "loop"
    /\ UNCHANGED <<nAdd, req, running>>
    /\ <<queue, leftover, cb, out, played>>' # <<queue, leftover, cb, out, played>>

\* C23: the output callback ends without waiting for a producer: no queued
\* chunk is empty; an iteration of its loop pops a chunk and writes at least
\* one sample (going on only while the buffer has room, else returning, with
\* the rest of the chunk as the carry), or finds the queue empty and
\* returns; an invocation on n positions pops n chunks at most, also while
\* add_samples calls come in between.
C23_CallbackTerminates ==
    /\ [](\A i \in 1..Len(queue) : queue[i] # <<>>)
    /\ [](cb.pc = "loop" => cb.written < Len(cb.data))
    /\ [](\A n \in 1..MaxBuf :
             Len(queue) - Len(Invocation(queue, leftover, n).queue) <= n)
    /\ [][ RecvIteration
           => \/ /\ queue = <<>>
                 /\ queue' = <<>>
                 /\ cb'.pc = "idle"
                 /\ out'.empty
              \/ /\ queue # <<>>
                 /\ queue' = Tail(queue)
                 /\ IF cb'.pc = "loop"
                    THEN cb'.written > cb.written /\ leftover' = leftover
                    ELSE /\ out'.written > cb.written
                         /\ (out'.written = Len(out'.data) \/ leftover' # None) ]_vars

C23_Witness ==
    /\ cb.pc = "loop"
    /\ cb.written >= 1
    /\ queue # <<>>
    /\ nAdd >= 2
    /\ req = "running"
    /\ budget > 0

====
